---- MODULE Spec2Model ----
(***************************************************************************)
(* Model of the agenda command-line tool: the configuration store          *)
(* (internal/configs), the Morgen calendar provider (internal/providers)   *)
(* and the post-processing of fetched events in runAgenda (main.go).       *)
(***************************************************************************)
EXTENDS Integers, Sequences, FiniteSets, TLC

VARIABLES
    files,      \* the file system: configuration path -> file content
    last,       \* the last configuration call and what it returned
    env,        \* the API-key environment variable
    provider,   \* the MorgenProvider: its config and apiKey
    fpc,        \* where GetTodaysEvents is: "start", "events", "done"
    calendars,  \* the calendars the list endpoint returned
    accountCalendarMap, \* account id -> calendar ids
    pending,    \* accounts the request loop has not reached yet
    requests,   \* every HTTP request issued, in order, with its outcome
    morgenEvents,       \* the raw events gathered so far
    fetched,    \* what GetTodaysEvents returned
    ppc,        \* where runAgenda is after the fetch: "fetched", "sorted", "exit"
    uniqueEvents,       \* runAgenda's map: key -> event
    sortedEvents,       \* runAgenda's list after the sort
    output,     \* the event lines printed
    exit,       \* how the run ended
    flags,      \* the command-line flags of the run
    rpc,        \* where runAgenda is before the fetch
    runConfig,  \* runAgenda's config value
    created     \* what CreateProvider returned

cvars == <<files, last>>
fvars == <<env, provider, fpc, calendars, accountCalendarMap, pending,
           requests, morgenEvents, fetched>>
pvars == <<ppc, uniqueEvents, sortedEvents, output, exit>>
rvars == <<flags, rpc, runConfig, created>>
vars == <<cvars, fvars, pvars, rvars>>

-----------------------------------------------------------------------------
(* internal/configs/configs.go                                             *)

CURRENT_CONFIG_VERSION == 1

\* Configuration paths: the per-user system path WriteConfig uses, and one
\* explicit path given with --config.
SystemConfigPath == "system"
Paths == {SystemConfigPath, "custom"}

\* The placeholder token of a header value; a header value is a sequence of
\* string pieces.
API_KEY_PLACEHOLDER == "{API_KEY}"

EmptyMap == [k \in {} |-> k]

\* The zero value of Config (var config Config).
ZeroConfig ==
    [Provider |-> "", TimeFormat |-> "", EventTemplate |-> "",
     Providers |-> EmptyMap, Version |-> 0]

DefaultProviderConfig ==
    [BaseURL |-> "https://api.morgen.so/v3",
     Headers |-> [h \in {"Authorization", "Content-Type"} |->
                    IF h = "Authorization" THEN <<"ApiKey ", API_KEY_PLACEHOLDER>>
                                           ELSE <<"application/json">>],
     EnvAPIKey |-> "MORGEN_API_KEY",
     CalendarsToIgnore |-> <<"ignore_this_calendar">>]

\* A default that was not given the schema version.
DefaultConfig_Unversioned ==
    [Provider |-> "morgen",
     TimeFormat |-> "15:04",
     EventTemplate |-> "- {{.StartTimeFormatted}}-{{.EndTimeFormatted}}: {{.Title}}",
     Providers |-> [n \in {"morgen"} |-> DefaultProviderConfig],
     Version |-> 0]

DefaultConfig ==
    [Provider |-> "morgen",
     TimeFormat |-> "15:04",
     EventTemplate |-> "- {{.StartTimeFormatted}}-{{.EndTimeFormatted}}: {{.Title}}",
     Providers |-> [n \in {"morgen"} |-> DefaultProviderConfig],
     Version |-> CURRENT_CONFIG_VERSION]

\* The provider mapping of the first schema: no ignore list.
MarshalProvider_NoIgnoreList(p) ==
    [base_url |-> p.BaseURL, headers |-> p.Headers, env_api_key |-> p.EnvAPIKey]

\* yaml.Marshal(&config): a YAML mapping with the keys of the struct tags.
MarshalProvider(p) ==
    [base_url |-> p.BaseURL, headers |-> p.Headers,
     env_api_key |-> p.EnvAPIKey, calendars_to_ignore |-> p.CalendarsToIgnore]

Marshal(config) ==
    [provider |-> config.Provider,
     time_format |-> config.TimeFormat,
     event_template |-> config.EventTemplate,
     providers |-> [n \in DOMAIN config.Providers |->
                      MarshalProvider(config.Providers[n])],
     config_version |-> config.Version]

\* yaml.Unmarshal(data, config): a key of the document sets its field, a
\* missing key leaves the field as it is in the target.
UnmarshalProvider(d) ==
    [BaseURL |-> IF "base_url" \in DOMAIN d THEN d.base_url ELSE "",
     Headers |-> IF "headers" \in DOMAIN d THEN d.headers ELSE EmptyMap,
     EnvAPIKey |-> IF "env_api_key" \in DOMAIN d THEN d.env_api_key ELSE "",
     CalendarsToIgnore |->
        IF "calendars_to_ignore" \in DOMAIN d THEN d.calendars_to_ignore ELSE <<>>]

Unmarshal(d, into) ==
    [Provider |-> IF "provider" \in DOMAIN d THEN d.provider ELSE into.Provider,
     TimeFormat |->
        IF "time_format" \in DOMAIN d THEN d.time_format ELSE into.TimeFormat,
     EventTemplate |->
        IF "event_template" \in DOMAIN d THEN d.event_template ELSE into.EventTemplate,
     Providers |->
        IF "providers" \in DOMAIN d
        THEN [n \in DOMAIN d.providers |-> UnmarshalProvider(d.providers[n])]
        ELSE into.Providers,
     Version |->
        IF "config_version" \in DOMAIN d THEN d.config_version ELSE into.Version]

\* File contents: no file, a file that is not valid YAML, a YAML document.
NoFile == [kind |-> "none", doc |-> EmptyMap]
CorruptFile == [kind |-> "corrupt", doc |-> EmptyMap]
YamlFile(d) == [kind |-> "yaml", doc |-> d]

\* A configuration the user edited, of the current version.
UserConfig ==
    [DefaultConfig EXCEPT !.TimeFormat = "3:04 PM", !.EventTemplate = "{{.Title}}"]

\* Configurations written under another schema version.
OtherVersions == {0, CURRENT_CONFIG_VERSION + 1}
StaleConfig(v) == [UserConfig EXCEPT !.Version = v]

\* The document of the first schema, which had no version field and no
\* ignore list.
LegacyDoc ==
    [provider |-> "morgen", time_format |-> "15:04",
     event_template |-> "- {{.StartTimeFormatted}}-{{.EndTimeFormatted}}: {{.Title}}",
     providers |-> [n \in {"morgen"} |->
        [base_url |-> "https://api.morgen.so/v3",
         headers |-> DefaultProviderConfig.Headers,
         env_api_key |-> "MORGEN_API_KEY"]]]

FileContents ==
    {NoFile, CorruptFile, YamlFile(Marshal(DefaultConfig)),
     YamlFile(Marshal(UserConfig)), YamlFile(LegacyDoc)}
    \cup {YamlFile(Marshal(StaleConfig(v))) : v \in OtherVersions}

\* WriteConfig(config): always writes the system path.
WriteConfig(fs, config) ==
    [fs EXCEPT ![SystemConfigPath] = YamlFile(Marshal(config))]

\* loadConfig(configPath, &config) on an existing file.
loadConfig(fs, configPath, config) ==
    IF fs[configPath].kind = "corrupt"
    THEN [config |-> config, err |-> "parse"]
    ELSE [config |-> Unmarshal(fs[configPath].doc, config), err |-> "nil"]

\* A ReadConfig that answers a stale file with the default and leaves the
\* file as it is.
ReadConfig_KeepsStaleFile(fs, path) ==
    IF fs[path].kind = "none"
    THEN [config |-> ZeroConfig, err |-> "not_exist",
          files |-> WriteConfig(fs, ZeroConfig)]
    ELSE LET loaded == loadConfig(fs, path, ZeroConfig) IN
         IF loaded.err # "nil"
         THEN [config |-> loaded.config, err |-> loaded.err, files |-> fs]
         ELSE IF loaded.config.Version # CURRENT_CONFIG_VERSION
              THEN [config |-> DefaultConfig, err |-> "nil", files |-> fs]
              ELSE [config |-> loaded.config, err |-> "nil", files |-> fs]

\* A ReadConfig that answers a file it cannot parse as it answers a stale
\* one: with the default, written back.
ReadConfig_DefaultOnParseError(fs, path) ==
    IF fs[path].kind = "none"
    THEN [config |-> ZeroConfig, err |-> "not_exist",
          files |-> WriteConfig(fs, ZeroConfig)]
    ELSE LET loaded == loadConfig(fs, path, ZeroConfig) IN
         IF loaded.err # "nil" \/ loaded.config.Version # CURRENT_CONFIG_VERSION
         THEN [config |-> DefaultConfig, err |-> "nil",
               files |-> WriteConfig(fs, DefaultConfig)]
         ELSE [config |-> loaded.config, err |-> "nil", files |-> fs]

\* ReadConfig(path): the configuration and error it returns and the file
\* system it leaves.
ReadConfig(fs, path) ==
    IF fs[path].kind = "none"
    THEN [config |-> ZeroConfig, err |-> "not_exist",
          files |-> WriteConfig(fs, ZeroConfig)]
    ELSE LET loaded == loadConfig(fs, path, ZeroConfig) IN
         IF loaded.err # "nil"
         THEN [config |-> loaded.config, err |-> loaded.err, files |-> fs]
         ELSE IF loaded.config.Version # CURRENT_CONFIG_VERSION
              THEN [config |-> DefaultConfig, err |-> "nil",
                    files |-> WriteConfig(fs, DefaultConfig)]
              ELSE [config |-> loaded.config, err |-> "nil", files |-> fs]

NoCall == [op |-> "none", path |-> SystemConfigPath, before |-> NoFile,
           config |-> ZeroConfig, err |-> "nil"]

-----------------------------------------------------------------------------
(* Go's time package, as the provider and runAgenda use it.                *)

\* Instants are counted in ticks; a second has TicksPerSecond ticks, so a
\* time.Time carries a sub-second part.
TicksPerSecond == 2
Seconds(n) == n * TicksPerSecond

LocalZone == "Europe/Paris"
KnownZones == {"UTC", "America/New_York", "Europe/Paris"}

\* The offset of a zone from UTC.
ZoneOffset(loc) ==
    CASE loc = "America/New_York" -> 0 - Seconds(5 * 3600)
      [] loc = "Europe/Paris" -> Seconds(3600)
      [] OTHER -> 0

\* time.LoadLocation(name): the empty name is UTC.
LoadLocation(name) ==
    IF name = "" THEN [err |-> "nil", loc |-> "UTC"]
    ELSE IF name \in KnownZones THEN [err |-> "nil", loc |-> name]
    ELSE [err |-> "unknown time zone", loc |-> "UTC"]

\* A time.Time: an instant and the location it is shown in.
Time(unix, loc) == [unix |-> unix, loc |-> loc]
In(t, loc) == [t EXCEPT !.loc = loc]
Add(t, d) == [t EXCEPT !.unix = @ + d]
Before(t, u) == t.unix < u.unix

\* time.ParseInLocation("2006-01-02T15:04:05", value, loc). A start string
\* of the requested day is <<hour, minute, second, fraction>>; parsing
\* accepts a fractional second the layout does not name. Any other shape,
\* or a field out of range, is an error.
ParseInLocation(value, loc) ==
    IF /\ Len(value) = 4
       /\ value[1] \in 0..23 /\ value[2] \in 0..59 /\ value[3] \in 0..59
       /\ value[4] \in 0..(TicksPerSecond - 1)
    THEN [err |-> "nil",
          t |-> Time(Seconds(value[1] * 3600 + value[2] * 60 + value[3])
                       + value[4] - ZoneOffset(loc), loc)]
    ELSE [err |-> "parse", t |-> Time(0, "UTC")]

\* t.Format(time.RFC3339): wall-clock seconds and the zone offset; the
\* sub-second part is not printed.
FormatRFC3339(t) ==
    [wall |-> (t.unix + ZoneOffset(t.loc)) \div TicksPerSecond,
     offset |-> ZoneOffset(t.loc)]

-----------------------------------------------------------------------------
(* iso8601duration, as the provider uses it.                               *)

\* A duration string: whether it has the leading "P", and its
\* <<number, designator>> parts ("Mo" is the month designator).
DurString(p, parts) == [p |-> p, parts |-> parts]

PartsField(parts, unit) ==
    LET idx == {i \in DOMAIN parts : parts[i][2] = unit} IN
    IF idx = {} THEN 0 ELSE parts[CHOOSE i \in idx : TRUE][1]

\* duration.FromString(s): an error for a string that is no duration and
\* for a duration with months.
FromString(s) ==
    IF ~s.p \/ (\E i \in DOMAIN s.parts : s.parts[i][2] = "Mo")
    THEN [err |-> "bad format",
          d |-> [Days |-> 0, Hours |-> 0, Minutes |-> 0, Seconds |-> 0]]
    ELSE [err |-> "nil",
          d |-> [Days |-> PartsField(s.parts, "D"),
                 Hours |-> PartsField(s.parts, "H"),
                 Minutes |-> PartsField(s.parts, "M"),
                 Seconds |-> PartsField(s.parts, "S")]]

\* A conversion that counts the hours only.
ToDuration_HoursOnly(d) == Seconds(d.Hours * 3600)

\* (*Duration).ToDuration()
ToDuration(d) ==
    Seconds(d.Days * 86400 + d.Hours * 3600 + d.Minutes * 60 + d.Seconds)

-----------------------------------------------------------------------------
(* internal/providers: MorgenProvider                                      *)

\* contains(list, target)
contains(list, target) == \E i \in DOMAIN list : list[i] = target

\* os.Getenv(name): the empty string for an unset variable.
Getenv(e) == IF e.set THEN e.value ELSE ""

EnvValues ==
    {[set |-> FALSE, value |-> ""], [set |-> TRUE, value |-> ""],
     [set |-> TRUE, value |-> "secret"]}

\* NewMorgenProvider(config)
NewMorgenProvider(config, e) == [config |-> config, apiKey |-> Getenv(e)]

\* getApiKey() without its check of the empty key.
getApiKey_Unchecked(m) == [err |-> "nil", key |-> m.apiKey]

\* getApiKey()
getApiKey(m) ==
    IF m.apiKey = ""
    THEN [err |-> "missing_credential", key |-> ""]
    ELSE [err |-> "nil", key |-> m.apiKey]

\* A provider entry a user wrote: other headers, another ignore list.
UserProviderConfig ==
    [BaseURL |-> "https://api.morgen.so/v3",
     Headers |-> [h \in {"Authorization", "X-Api-Key"} |->
                    IF h = "Authorization" THEN <<"Bearer ", API_KEY_PLACEHOLDER>>
                                           ELSE <<API_KEY_PLACEHOLDER>>],
     EnvAPIKey |-> "AGENDA_API_KEY",
     CalendarsToIgnore |-> <<"Home">>]

ProviderConfigs == {DefaultProviderConfig, UserProviderConfig}

\* strings.Replace(value, old, new, 1) on a value made of pieces.
ReplaceFirst(value, old, new) ==
    LET idx == {i \in DOMAIN value : value[i] = old} IN
    IF idx = {} THEN value
    ELSE LET first == CHOOSE i \in idx : \A j \in idx : i <= j IN
         [value EXCEPT ![first] = new]

\* The header loop of getCalendars and GetTodaysEvents.
RequestHeaders(m, apiKey) ==
    [key \in DOMAIN m.config.Headers |->
        IF key = "Authorization"
        THEN ReplaceFirst(m.config.Headers[key], API_KEY_PLACEHOLDER, apiKey)
        ELSE m.config.Headers[key]]

\* The calendars of the list endpoint (morgenCalendar).
Calendar(id, name, account, canRead) ==
    [Id |-> id, Name |-> name, AccountId |-> account, CanRead |-> canRead]

AllCalendars ==
    {Calendar("cal-work", "Work", "acct-1", TRUE),
     Calendar("cal-ignored", "ignore_this_calendar", "acct-1", TRUE),
     Calendar("cal-home", "Home", "acct-2", TRUE),
     Calendar("cal-shared", "Shared", "acct-2", FALSE)}

MaxCalendars == 3

RECURSIVE DistinctSeqs(_, _)
DistinctSeqs(S, n) ==
    IF n = 0 THEN {<<>>}
    ELSE LET shorter == DistinctSeqs(S, n - 1) IN
         shorter \cup {Append(s, x) : s \in {t \in shorter : Len(t) = n - 1},
                                      x \in S}

Range(s) == {s[i] : i \in DOMAIN s}

\* The calendar lists the list endpoint may answer with.
CalendarLists ==
    {s \in DistinctSeqs(AllCalendars, MaxCalendars) :
        Cardinality(Range(s)) = Len(s)}

\* The filter without its look at the ignore list.
Included_ReadableOnly(m, cal) == cal.CanRead

\* The filter of the grouping loop: readable and not ignored.
Included(m, cal) ==
    cal.CanRead /\ ~contains(m.config.CalendarsToIgnore, cal.Name)

\* The grouping loop: account id -> the ids of its included calendars, in
\* list order.
GroupCalendars(m, cals) ==
    LET Keep(c) == Included(m, c)
        kept == SelectSeq(cals, Keep)
        accounts == {kept[i].AccountId : i \in DOMAIN kept}
        IdsOf(a) ==
            LET Mine(c) == c.AccountId = a
                mine == SelectSeq(kept, Mine) IN
            [i \in DOMAIN mine |-> mine[i].Id]
    IN [a \in accounts |-> IdsOf(a)]

\* HTTP requests as issued.
CalendarsRequest(m, apiKey, outcome) ==
    [url |-> "calendars/list", accountId |-> "", calendarIds |-> <<>>,
     headers |-> RequestHeaders(m, apiKey), outcome |-> outcome]

EventsRequest(m, apiKey, accountId, calendarIds, outcome) ==
    [url |-> "events/list", accountId |-> accountId, calendarIds |-> calendarIds,
     headers |-> RequestHeaders(m, apiKey), outcome |-> outcome]

\* Ways a request fails: client.Do returns an error (also the 30 s timeout),
\* the status is not 200, the body does not decode.
RequestFailures == {"transport", "status", "decode"}

\* The raw events of the events endpoint (morgenEvent).
RawEvent(id, title, start, dur, zone, desc) ==
    [ID |-> id, Title |-> title, StartTime |-> start, Duration |-> dur,
     TimeZone |-> zone, Description |-> desc]

PT1H30M == DurString(TRUE, <<<<1, "H">>, <<30, "M">>>>)
PT1H == DurString(TRUE, <<<<1, "H">>>>)
NotADuration == DurString(FALSE, <<>>)

\* The events the events endpoint answers with in the fetch.
FetchRawEvents ==
    {RawEvent("e1", "Standup", <<9, 0, 0, 0>>, PT1H30M, "America/New_York", "first"),
     RawEvent("e4", "Review", <<14, 0, 0, 0>>, PT1H, "UTC", ""),
     RawEvent("e6", "Offsite", <<9, 0, 0, 0>>, PT1H, "Mars/Phobos", ""),
     RawEvent("e7", "Retro", <<25, 0, 0, 0>>, PT1H, "UTC", ""),
     RawEvent("e8", "Planning", <<10, 0, 0, 0>>, NotADuration, "UTC", "")}

\* More events of the same day: the same meeting seen through a second
\* calendar, one starting half a second later, one with no zone name.
AllRawEvents ==
    FetchRawEvents \cup
    {RawEvent("e2", "Standup", <<9, 0, 0, 0>>, PT1H30M, "America/New_York", "second"),
     RawEvent("e3", "Standup", <<9, 0, 0, 1>>, PT1H, "America/New_York", ""),
     RawEvent("e5", "Breakfast", <<8, 0, 0, 0>>, PT1H, "", "")}

MaxEvents == 2

RECURSIVE SeqsUpTo(_, _)
SeqsUpTo(S, n) ==
    IF n = 0 THEN {<<>>}
    ELSE LET shorter == SeqsUpTo(S, n - 1) IN
         shorter \cup {Append(s, x) : s \in {t \in shorter : Len(t) = n - 1},
                                      x \in S}

\* The canonical event (models.CalendarEvent).
CalendarEvent(me, startTime, endTime) ==
    [ID |-> me.ID, Title |-> me.Title,
     StartTime |-> In(startTime, LocalZone), EndTime |-> In(endTime, LocalZone),
     Description |-> me.Description]

\* One pass of the conversion loop over raw event me. FromString's result
\* for a string it rejects is a nil *Duration, on which dur.ToDuration()
\* panics (nilOnError), or a zero Duration, after which the second
\* `if err != nil` skips the event.
ConvertStep(acc, me, nilOnError) ==
    IF acc.status = "panic" THEN acc
    ELSE
    LET loc == LoadLocation(me.TimeZone) IN
    IF loc.err # "nil" THEN acc
    ELSE
    LET startTime == ParseInLocation(me.StartTime, loc.loc) IN
    IF startTime.err # "nil" THEN acc
    ELSE
    LET dur == FromString(me.Duration) IN
    IF dur.err # "nil"
    THEN IF nilOnError THEN [status |-> "panic", err |-> "nil pointer", events |-> <<>>]
         ELSE acc
    ELSE [acc EXCEPT !.events =
            Append(@, CalendarEvent(me, startTime.t,
                                    Add(startTime.t, ToDuration(dur.d))))]

\* The conversion loop.
RECURSIVE ConvertEvents(_, _)
ConvertEvents(raw, nilOnError) ==
    IF raw = <<>> THEN [status |-> "ok", err |-> "nil", events |-> <<>>]
    ELSE ConvertStep(ConvertEvents(SubSeq(raw, 1, Len(raw) - 1), nilOnError),
                     raw[Len(raw)], nilOnError)

\* An error return that hands back what the earlier accounts gave.
FetchError_KeepsGathered(kind) ==
    [status |-> "error", err |-> kind,
     events |-> ConvertEvents(morgenEvents, FALSE).events]

\* What GetTodaysEvents returns on an error: no events.
FetchError(kind) == [status |-> "error", err |-> kind, events |-> <<>>]

NotFetched == [status |-> "none", err |-> "nil", events |-> <<>>]

-----------------------------------------------------------------------------
(* internal/providers/provider_factory.go                                  *)

\* The nil CalendarProvider an error return carries.
NilProvider == [config |-> UnmarshalProvider(EmptyMap), apiKey |-> ""]

\* A factory whose switch has no default: every configured name gets the
\* Morgen provider.
CreateProvider_AnyConfigured(config, name, e) ==
    IF name \notin DOMAIN config.Providers
    THEN [err |-> "not found in configuration", provider |-> NilProvider]
    ELSE [err |-> "nil", provider |-> NewMorgenProvider(config.Providers[name], e)]

\* NewProviderFactory(config).CreateProvider(name); e is the environment
\* NewMorgenProvider reads the key from.
CreateProvider(config, name, e) ==
    IF name \notin DOMAIN config.Providers
    THEN [err |-> "not found in configuration", provider |-> NilProvider]
    ELSE IF name = "morgen"
         THEN [err |-> "nil",
               provider |-> NewMorgenProvider(config.Providers[name], e)]
         ELSE [err |-> "unsupported provider", provider |-> NilProvider]

NotCreated == [err |-> "none", provider |-> NilProvider]

-----------------------------------------------------------------------------
(* main.go: runAgenda up to the fetch                                      *)

\* A configuration with a second provider entry, for which the factory has
\* no implementation.
MultiProviderConfig ==
    [UserConfig EXCEPT !.Providers =
        [n \in {"morgen", "google"} |->
            IF n = "morgen" THEN DefaultProviderConfig ELSE UserProviderConfig]]

RunFileContents == FileContents \cup {YamlFile(Marshal(MultiProviderConfig))}

\* The flags --config, --provider, --time-format, --event-template, --date;
\* a flag that is not given is the empty string. A date is <<year, month,
\* day>>.
NoDate == <<>>
Flags ==
    [config : {"", "custom"},
     provider : {"", "morgen", "google", "outlook"},
     timeFormat : {"", "15:04:05"},
     eventTemplate : {"", "{{.Title}} at {{.StartTimeFormatted}}"},
     date : {NoDate, <<2024, 1, 1>>, <<2024, 13, 1>>}]

NoFlags ==
    [config |-> "", provider |-> "", timeFormat |-> "", eventTemplate |-> "",
     date |-> NoDate]

\* configPath: the --config flag, or DefaultConfigPath().
ConfigPath(f) == IF f.config = "" THEN SystemConfigPath ELSE f.config

\* The overrides without effect.
ApplyOverrides_Ignored(config, f) == config

\* The three overrides of runAgenda: a flag that is given replaces the
\* field of the loaded configuration.
ApplyOverrides(config, f) ==
    [config EXCEPT
        !.Provider = IF f.provider # "" THEN f.provider ELSE @,
        !.TimeFormat = IF f.timeFormat # "" THEN f.timeFormat ELSE @,
        !.EventTemplate = IF f.eventTemplate # "" THEN f.eventTemplate ELSE @]

\* time.Parse("2006-01-02", dateStr): nil when month and day are in range.
ParseDate(value) ==
    IF Len(value) = 3 /\ value[2] \in 1..12 /\ value[3] \in 1..31
    THEN "nil" ELSE "parse"

-----------------------------------------------------------------------------
(* main.go: runAgenda after the fetch                                      *)

\* The key of the deduplication map: fmt.Sprintf("%s-%s", Title,
\* StartTime.Format(time.RFC3339)). The time part has a fixed length, so two
\* keys are equal exactly when both parts are.
EventKey(event) == <<event.Title, FormatRFC3339(event.StartTime)>>

\* The deduplication loop: the first event of a key stays.
RECURSIVE Deduplicate(_)
Deduplicate(evs) ==
    IF evs = <<>> THEN EmptyMap
    ELSE LET m == Deduplicate(SubSeq(evs, 1, Len(evs) - 1))
             event == evs[Len(evs)]
             key == EventKey(event) IN
         IF key \in DOMAIN m THEN m
         ELSE [k \in DOMAIN m \cup {key} |-> IF k = key THEN event ELSE m[k]]

\* The less function of sort.Slice.
Less(a, b) == Before(In(a.StartTime, LocalZone), In(b.StartTime, LocalZone))

\* The list built from the map with no sort: any order of the map's events.
SortedLists_MapOrder(m) ==
    LET n == Cardinality(DOMAIN m)
        orders == {f \in [1..n -> DOMAIN m] : \A i, j \in 1..n : f[i] = f[j] => i = j}
    IN {[i \in 1..n |-> m[f[i]]] : f \in orders}

\* The list built by ranging over the map (in an order the language leaves
\* open) and sorted with sort.Slice (which is not stable): every arrangement
\* of the map's events in which no event is before an earlier one.
SortedLists(m) ==
    LET n == Cardinality(DOMAIN m)
        orders == {f \in [1..n -> DOMAIN m] : \A i, j \in 1..n : f[i] = f[j] => i = j}
    IN {[i \in 1..n |-> m[f[i]]] : f \in
          {g \in orders : \A i, j \in 1..n : i < j => ~Less(m[g[j]], m[g[i]])}}

\* The post-processing of a list of events, deduplication then sort: the
\* lists it can give.
PostProcessor(evs) == SortedLists(Deduplicate(evs))

\* event.StartTime.Format(f.timeFormat) for the default format "15:04":
\* hour and minute of the wall clock.
FormatClock(t) ==
    LET wall == ((t.unix + ZoneOffset(t.loc)) \div Seconds(60)) % 1440 IN
    <<wall \div 60, wall % 60>>

\* t.Format(layout) for the layouts in use: "15:04", "15:04:05" and the
\* twelve-hour "3:04 PM"; text that names no field of the time is printed
\* as it stands.
FormatTime(t, layout) ==
    LET wall == ((t.unix + ZoneOffset(t.loc)) \div TicksPerSecond) % 86400
        hm == FormatClock(t) IN
    CASE layout = "15:04" -> hm
      [] layout = "15:04:05" -> <<hm[1], hm[2], wall % 60>>
      [] layout = "3:04 PM" ->
            <<IF hm[1] % 12 = 0 THEN 12 ELSE hm[1] % 12, hm[2],
              IF hm[1] < 12 THEN "AM" ELSE "PM">>
      [] OTHER -> <<layout>>

\* Event templates: the default, two that print fewer fields, one that
\* slices the description (an error for an event without one), one that
\* names a field the data does not have, one that does not parse.
TitleTemplate == "{{.Title}}"
TitleAtStartTemplate == "{{.Title}} at {{.StartTimeFormatted}}"
SliceTemplate == "{{if slice .Description 0 1}}{{.Title}}{{end}}"
UndefinedFieldTemplate == "{{.Title}} ({{.Organizer}})"
UnparsableTemplate == "{{.Title"

\* NewEventFormatter(timeFormat, eventTemplateStr): template.Parse fails on
\* a malformed template.
NewEventFormatter(timeFormat, eventTemplateStr) ==
    [err |-> IF eventTemplateStr = UnparsableTemplate THEN "parse" ELSE "nil",
     timeFormat |-> timeFormat, eventTemplate |-> eventTemplateStr]

\* f.eventTemplate.Execute(&result, data): the text, or the error of an
\* action that cannot be evaluated for this data.
Execute(tmpl, data) ==
    CASE tmpl = TitleTemplate ->
            [err |-> "nil", text |-> [Title |-> data.Title]]
      [] tmpl = TitleAtStartTemplate ->
            [err |-> "nil",
             text |-> [Title |-> data.Title,
                       StartTimeFormatted |-> data.StartTimeFormatted]]
      [] tmpl = SliceTemplate ->
            IF data.Description = ""
            THEN [err |-> "index out of range", text |-> [Title |-> ""]]
            ELSE [err |-> "nil", text |-> [Title |-> data.Title]]
      [] tmpl = UndefinedFieldTemplate ->
            [err |-> "can't evaluate field", text |-> [Title |-> ""]]
      [] OTHER ->
            [err |-> "nil",
             text |-> [StartTimeFormatted |-> data.StartTimeFormatted,
                       EndTimeFormatted |-> data.EndTimeFormatted,
                       Title |-> data.Title]]

\* FormatEvent: the event's fields and the formatted times go to the
\* template; an error of Execute gives no line.
FormatEvent(f, event) ==
    LET data == [Title |-> event.Title, Description |-> event.Description,
                 StartTimeFormatted |-> FormatTime(event.StartTime, f.timeFormat),
                 EndTimeFormatted |-> FormatTime(event.EndTime, f.timeFormat)]
        result == Execute(f.eventTemplate, data) IN
    IF result.err # "nil"
    THEN [err |-> "failed to execute template", line |-> [Title |-> ""]]
    ELSE [err |-> "nil", line |-> result.text]

\* A print loop that ends at the first event that does not render.
RECURSIVE PrintLoop_StopsAtFailure(_, _)
PrintLoop_StopsAtFailure(f, evs) ==
    IF evs = <<>> THEN <<>>
    ELSE IF FormatEvent(f, evs[1]).err # "nil" THEN <<>>
         ELSE <<FormatEvent(f, evs[1]).line>> \o PrintLoop_StopsAtFailure(f, Tail(evs))

\* The print loop: a line for each event that renders, a warning and
\* `continue` for one that does not.
RECURSIVE PrintLoop(_, _)
PrintLoop(f, evs) ==
    IF evs = <<>> THEN <<>>
    ELSE LET formatted == FormatEvent(f, evs[1]) IN
         IF formatted.err # "nil" THEN PrintLoop(f, Tail(evs))
         ELSE <<formatted.line>> \o PrintLoop(f, Tail(evs))

\* The time format and template runAgenda formats with.
FormatterConfigs ==
    {[DefaultConfig EXCEPT !.TimeFormat = tf, !.EventTemplate = tpl] :
        tf \in {DefaultConfig.TimeFormat, UserConfig.TimeFormat},
        tpl \in {DefaultConfig.EventTemplate, TitleTemplate, SliceTemplate,
                 UndefinedFieldTemplate, UnparsableTemplate}}

MaxFetched == 3

\* What GetTodaysEvents can hand to runAgenda.
FetchResults ==
    {ConvertEvents(raw, FALSE) : raw \in SeqsUpTo(AllRawEvents, MaxFetched)}
    \cup {FetchError(kind) : kind \in RequestFailures \cup {"missing_credential"}}

PostIdle ==
    /\ ppc = "idle"
    /\ uniqueEvents = EmptyMap
    /\ sortedEvents = <<>>
    /\ output = <<>>
    /\ exit = "running"

FetchReturned ==
    /\ env = [set |-> TRUE, value |-> "secret"]
    /\ provider = NewMorgenProvider(DefaultProviderConfig, env)
    /\ fpc = "done"
    /\ calendars = <<>>
    /\ accountCalendarMap = EmptyMap
    /\ pending = {}
    /\ requests = <<>>
    /\ morgenEvents = <<>>
    /\ fetched \in FetchResults

FetchIdle ==
    /\ env = [set |-> FALSE, value |-> ""]
    /\ provider = NewMorgenProvider(DefaultProviderConfig, env)
    /\ fpc = "idle"
    /\ calendars = <<>>
    /\ accountCalendarMap = EmptyMap
    /\ pending = {}
    /\ requests = <<>>
    /\ morgenEvents = <<>>
    /\ fetched = NotFetched

RunIdle ==
    /\ flags = NoFlags
    /\ rpc = "idle"
    /\ runConfig = ZeroConfig
    /\ created = NotCreated

ConfigIdle ==
    /\ files = [p \in Paths |-> NoFile]
    /\ last = NoCall

ConfigInit ==
    /\ files \in [Paths -> FileContents]
    /\ last = NoCall
    /\ FetchIdle
    /\ PostIdle
    /\ RunIdle

\* runAgenda's call configs.ReadConfig(configPath).
ReadConfigCall(path) ==
    LET r == ReadConfig(files, path) IN
    /\ files' = r.files
    /\ last' = [op |-> "ReadConfig", path |-> path, before |-> files[path],
                config |-> r.config, err |-> r.err]
    /\ UNCHANGED <<fvars, pvars, rvars>>

\* The init subcommand: WriteConfig(DefaultConfig()).
initConfig ==
    /\ files' = WriteConfig(files, DefaultConfig)
    /\ last' = [op |-> "init", path |-> SystemConfigPath,
                before |-> files[SystemConfigPath],
                config |-> DefaultConfig, err |-> "nil"]
    /\ UNCHANGED <<fvars, pvars, rvars>>

NextConfig ==
    \/ \E path \in Paths : ReadConfigCall(path)
    \/ initConfig

SpecConfig == ConfigInit /\ [][NextConfig]_vars

-----------------------------------------------------------------------------
(* runAgenda from its flags to the provider it fetches with.               *)

RunInit ==
    /\ files \in [Paths -> RunFileContents]
    /\ last = NoCall
    /\ flags \in Flags
    /\ rpc = "start"
    /\ runConfig = ZeroConfig
    /\ created = NotCreated
    /\ env \in EnvValues
    /\ provider = NilProvider
    /\ fpc = "idle"
    /\ calendars = <<>>
    /\ accountCalendarMap = EmptyMap
    /\ pending = {}
    /\ requests = <<>>
    /\ morgenEvents = <<>>
    /\ fetched = NotFetched
    /\ PostIdle

\* config, err := configs.ReadConfig(configPath); an error ends the run.
RunReadConfig ==
    /\ rpc = "start"
    /\ LET r == ReadConfig(files, ConfigPath(flags)) IN
       /\ files' = r.files
       /\ last' = [op |-> "ReadConfig", path |-> ConfigPath(flags),
                   before |-> files[ConfigPath(flags)],
                   config |-> r.config, err |-> r.err]
       /\ runConfig' = r.config
       /\ rpc' = IF r.err # "nil" THEN "fatal_config" ELSE "loaded"
    /\ UNCHANGED <<flags, created, fvars, pvars>>

\* The overrides, then the --date flag; a date that does not parse ends the
\* run.
RunOverrides ==
    /\ rpc = "loaded"
    /\ runConfig' = ApplyOverrides(runConfig, flags)
    /\ rpc' = IF flags.date # NoDate /\ ParseDate(flags.date) # "nil"
              THEN "fatal_date" ELSE "overridden"
    /\ UNCHANGED <<flags, created, cvars, fvars, pvars>>

\* factory.CreateProvider(config.Provider); an error ends the run, otherwise
\* the provider is ready for GetTodaysEvents.
RunCreateProvider ==
    /\ rpc = "overridden"
    /\ created' = CreateProvider(runConfig, runConfig.Provider, env)
    /\ IF created'.err # "nil"
       THEN rpc' = "fatal_provider" /\ provider' = provider /\ fpc' = fpc
       ELSE rpc' = "created" /\ provider' = created'.provider /\ fpc' = "start"
    /\ UNCHANGED <<flags, runConfig, env, calendars, accountCalendarMap, pending,
                   requests, morgenEvents, fetched, cvars, pvars>>

NextRun ==
    \/ RunReadConfig
    \/ RunOverrides
    \/ RunCreateProvider

SpecRun == RunInit /\ [][NextRun]_vars

-----------------------------------------------------------------------------
(* MorgenProvider.GetTodaysEvents, one action per network exchange.        *)

FetchInit ==
    /\ env \in EnvValues
    /\ \E config \in ProviderConfigs : provider = NewMorgenProvider(config, env)
    /\ fpc = "start"
    /\ calendars = <<>>
    /\ accountCalendarMap = EmptyMap
    /\ pending = {}
    /\ requests = <<>>
    /\ morgenEvents = <<>>
    /\ fetched = NotFetched
    /\ ConfigIdle
    /\ PostIdle
    /\ RunIdle

\* getApiKey fails: GetTodaysEvents returns before any request.
MissingApiKey ==
    /\ fpc = "start"
    /\ getApiKey(provider).err # "nil"
    /\ fetched' = FetchError(getApiKey(provider).err)
    /\ fpc' = "done"
    /\ UNCHANGED <<env, provider, calendars, accountCalendarMap, pending,
                   requests, morgenEvents, cvars, pvars, rvars>>

\* getCalendars: the list request fails.
GetCalendarsFails(kind) ==
    /\ fpc = "start"
    /\ getApiKey(provider).err = "nil"
    /\ requests' = Append(requests,
                          CalendarsRequest(provider, getApiKey(provider).key, kind))
    /\ fetched' = FetchError(kind)
    /\ fpc' = "done"
    /\ UNCHANGED <<env, provider, calendars, accountCalendarMap, pending,
                   morgenEvents, cvars, pvars, rvars>>

\* getCalendars answers with cals; the calendars are grouped by account. With
\* no account left there is no events request and nothing to convert.
GetCalendarsOk(cals) ==
    /\ fpc = "start"
    /\ getApiKey(provider).err = "nil"
    /\ requests' = Append(requests,
                          CalendarsRequest(provider, getApiKey(provider).key, "ok"))
    /\ calendars' = cals
    /\ accountCalendarMap' = GroupCalendars(provider, cals)
    /\ pending' = DOMAIN accountCalendarMap'
    /\ IF pending' = {}
       THEN fpc' = "done" /\ fetched' = ConvertEvents(<<>>, TRUE)
       ELSE fpc' = "events" /\ fetched' = fetched
    /\ UNCHANGED <<env, provider, morgenEvents, cvars, pvars, rvars>>

\* The events request of one account fails: the whole fetch returns the error.
EventsRequestFails(accountId, kind) ==
    /\ fpc = "events"
    /\ accountId \in pending
    /\ requests' = Append(requests,
            EventsRequest(provider, getApiKey(provider).key, accountId,
                          accountCalendarMap[accountId], kind))
    /\ fetched' = FetchError(kind)
    /\ fpc' = "done"
    /\ UNCHANGED <<env, provider, calendars, accountCalendarMap, pending,
                   morgenEvents, cvars, pvars, rvars>>

\* The events request of one account answers with events; after the last
\* account the gathered events are converted and returned.
EventsRequestOk(accountId, events, nilOnError) ==
    /\ fpc = "events"
    /\ accountId \in pending
    /\ Len(morgenEvents) + Len(events) <= MaxEvents
    /\ requests' = Append(requests,
            EventsRequest(provider, getApiKey(provider).key, accountId,
                          accountCalendarMap[accountId], "ok"))
    /\ pending' = pending \ {accountId}
    /\ morgenEvents' = morgenEvents \o events
    /\ IF pending' = {}
       THEN fpc' = "done" /\ fetched' = ConvertEvents(morgenEvents', nilOnError)
       ELSE fpc' = "events" /\ fetched' = fetched
    /\ UNCHANGED <<env, provider, calendars, accountCalendarMap, cvars, pvars, rvars>>

NextFetch ==
    \/ MissingApiKey
    \/ \E kind \in RequestFailures : GetCalendarsFails(kind)
    \/ \E cals \in CalendarLists : GetCalendarsOk(cals)
    \/ \E a \in pending, kind \in RequestFailures : EventsRequestFails(a, kind)
    \/ \E a \in pending, events \in SeqsUpTo(FetchRawEvents, MaxEvents),
          nilOnError \in BOOLEAN : EventsRequestOk(a, events, nilOnError)

SpecFetch == FetchInit /\ [][NextFetch]_vars

-----------------------------------------------------------------------------
(* runAgenda from the return of GetTodaysEvents to the last printed line.   *)

PostInit ==
    /\ FetchReturned
    /\ ConfigIdle
    /\ flags = NoFlags
    /\ rpc = "created"
    /\ runConfig \in FormatterConfigs
    /\ created = CreateProvider(runConfig, runConfig.Provider, env)
    /\ ppc = "fetched"
    /\ uniqueEvents = EmptyMap
    /\ sortedEvents = <<>>
    /\ output = <<>>
    /\ exit = "running"

\* log.Fatalf("Failed to get events: %v", err)
FetchFailed ==
    /\ ppc = "fetched"
    /\ fetched.status = "error"
    /\ ppc' = "exit"
    /\ exit' = "fatal"
    /\ UNCHANGED <<uniqueEvents, sortedEvents, output, cvars, fvars, rvars>>

\* A run with no check of the empty list: it goes on to the print loop.
NoEventsFound_FallsThrough ==
    /\ ppc = "fetched"
    /\ fetched.status = "ok"
    /\ Len(fetched.events) = 0
    /\ ppc' = "sorted"
    /\ UNCHANGED <<uniqueEvents, sortedEvents, output, exit, cvars, fvars, rvars>>

\* len(events) == 0: "No events found for today."
NoEventsFound ==
    /\ ppc = "fetched"
    /\ fetched.status = "ok"
    /\ Len(fetched.events) = 0
    /\ ppc' = "exit"
    /\ exit' = "no_events"
    /\ UNCHANGED <<uniqueEvents, sortedEvents, output, cvars, fvars, rvars>>

\* Deduplication, the list from the map, the sort.
PostProcess ==
    /\ ppc = "fetched"
    /\ fetched.status = "ok"
    /\ Len(fetched.events) > 0
    /\ uniqueEvents' = Deduplicate(fetched.events)
    /\ IF Cardinality(DOMAIN uniqueEvents') = 0
       THEN /\ ppc' = "exit"
            /\ exit' = "no_events"
            /\ sortedEvents' = sortedEvents
       ELSE /\ ppc' = "sorted"
            /\ exit' = exit
            /\ sortedEvents' \in SortedLists(uniqueEvents')
    /\ UNCHANGED <<output, cvars, fvars, rvars>>

\* The formatter and the print loop; a template that does not parse ends
\* the run before any line.
PrintEvents ==
    /\ ppc = "sorted"
    /\ LET formatter ==
            NewEventFormatter(runConfig.TimeFormat, runConfig.EventTemplate) IN
       IF formatter.err # "nil"
       THEN output' = output /\ exit' = "fatal_formatter"
       ELSE output' = PrintLoop(formatter, sortedEvents) /\ exit' = "printed"
    /\ ppc' = "exit"
    /\ UNCHANGED <<uniqueEvents, sortedEvents, cvars, fvars, rvars>>

NextPost ==
    \/ FetchFailed
    \/ NoEventsFound
    \/ PostProcess
    \/ PrintEvents

SpecPost == PostInit /\ [][NextPost]_vars

-----------------------------------------------------------------------------
(* Claims about the provider, checked under SpecFetch.                     *)

EventsRequests ==
    LET IsEvents(r) == r.url = "events/list" IN SelectSeq(requests, IsEvents)

\* The request loop ran through every account: GetTodaysEvents got past the
\* calendar list and no request failed.
LoopCompleted ==
    /\ fpc = "done"
    /\ requests # <<>>
    /\ \A i \in DOMAIN requests : requests[i].outcome = "ok"

ZoneResolves(me) == me.TimeZone = "" \/ me.TimeZone \in KnownZones
StartParses(me) ==
    /\ Len(me.StartTime) = 4
    /\ me.StartTime[1] < 24 /\ me.StartTime[2] < 60 /\ me.StartTime[3] < 60
DurationParses(me) ==
    me.Duration.p /\ \A i \in DOMAIN me.Duration.parts : me.Duration.parts[i][2] # "Mo"

\* C4: a non-success HTTP status or a transport failure on the calendar-list
\* request or on any per-account events request makes GetTodaysEvents return
\* an error and no events at all, whatever was gathered from other accounts.
C4_FailedRequestAbortsFetch ==
    (\E i \in DOMAIN requests : requests[i].outcome \in {"status", "transport"})
        => /\ fpc = "done"
           /\ fetched.status = "error"
           /\ fetched.events = <<>>

\* An events request failed after another account had given events that
\* convert.
C4_Witness ==
    /\ fpc = "done"
    /\ Len(requests) = 3
    /\ requests[3].outcome = "status"
    /\ \E i \in DOMAIN morgenEvents :
          ZoneResolves(morgenEvents[i]) /\ StartParses(morgenEvents[i])
          /\ DurationParses(morgenEvents[i])

\* C5: if the API-key environment variable is unset or empty, GetTodaysEvents
\* fails with the missing-credential error and no request is ever issued.
C5_MissingKeyFailsBeforeAnyRequest ==
    (~env.set \/ env.value = "")
        => /\ requests = <<>>
           /\ fpc = "done" =>
                /\ fetched.status = "error"
                /\ fetched.err = "missing_credential"

C5_Witness == fpc = "done" /\ env.set /\ env.value = ""

\* C6: when an event's duration string fails to parse, the event is kept in
\* the result with endTime = startTime; it is not dropped and the fetch does
\* not abort.
C6_BadDurationKeepsEvent ==
    LoopCompleted =>
        /\ fetched.status = "ok"
        /\ \A i \in DOMAIN morgenEvents :
             (/\ ZoneResolves(morgenEvents[i])
              /\ StartParses(morgenEvents[i])
              /\ ~DurationParses(morgenEvents[i]))
             => \E j \in DOMAIN fetched.events :
                   /\ fetched.events[j].ID = morgenEvents[i].ID
                   /\ fetched.events[j].EndTime = fetched.events[j].StartTime

\* C7: an event whose zone does not resolve or whose start does not parse is
\* skipped, and the fetch still succeeds: its result has no skipped event and
\* has every raw event with valid zone, start and duration, in order.
C7_BadZoneOrStartSkippedOnly ==
    (/\ LoopCompleted
     /\ \E i \in DOMAIN morgenEvents :
           ~ZoneResolves(morgenEvents[i]) \/ ~StartParses(morgenEvents[i]))
    =>
        /\ fetched.status = "ok"
        /\ \A j \in DOMAIN fetched.events : \E i \in DOMAIN morgenEvents :
             /\ morgenEvents[i].ID = fetched.events[j].ID
             /\ ZoneResolves(morgenEvents[i]) /\ StartParses(morgenEvents[i])
        /\ LET Valid(me) == ZoneResolves(me) /\ StartParses(me) /\ DurationParses(me)
               valid == SelectSeq(morgenEvents, Valid) IN
           \E f \in [DOMAIN valid -> DOMAIN fetched.events] :
              /\ \A i \in DOMAIN valid : fetched.events[f[i]].ID = valid[i].ID
              /\ \A i, k \in DOMAIN valid : i < k => f[i] < f[k]

\* The calendars whose events are wanted: readable, name not in the
\* ignore list.
WantedCalendars ==
    {c \in Range(calendars) :
        c.CanRead /\ c.Name \notin Range(provider.config.CalendarsToIgnore)}

\* C8: every events request carries one account id and only ids of wanted
\* calendars of that account; no account is asked twice; and when the request
\* loop has run through, every account with a wanted calendar got exactly one
\* request and every wanted calendar id is in exactly one request.
C8_OneRequestPerAccount ==
    /\ \A i \in DOMAIN EventsRequests :
         LET r == EventsRequests[i] IN
         /\ r.calendarIds # <<>>
         /\ \A k \in DOMAIN r.calendarIds :
               \E c \in WantedCalendars :
                  c.Id = r.calendarIds[k] /\ c.AccountId = r.accountId
         /\ \A j \in DOMAIN EventsRequests :
               j # i => EventsRequests[j].accountId # r.accountId
    /\ LoopCompleted =>
         /\ \A c \in WantedCalendars :
               Cardinality({i \in DOMAIN EventsRequests :
                               EventsRequests[i].accountId = c.AccountId}) = 1
         /\ \A c \in WantedCalendars :
               Cardinality({i \in DOMAIN EventsRequests :
                               c.Id \in Range(EventsRequests[i].calendarIds)}) = 1

\* Two accounts were asked, and the list had a calendar that was left out.
C8_Witness ==
    /\ LoopCompleted
    /\ Len(EventsRequests) = 2
    /\ Cardinality(WantedCalendars) < Len(calendars)

\* A header value with the key in the place of every placeholder.
Substituted(value, apiKey) ==
    [i \in DOMAIN value |->
        IF value[i] = API_KEY_PLACEHOLDER THEN apiKey ELSE value[i]]

\* C13: every request sent (calendar list and events list) carries each
\* configured header with the resolved API key in the place of the
\* placeholder, whatever the header's name; no header is sent with a
\* literal placeholder.
C13_PlaceholderSubstitutedInEveryHeader ==
    \A i \in DOMAIN requests :
        /\ DOMAIN requests[i].headers = DOMAIN provider.config.Headers
        /\ \A h \in DOMAIN requests[i].headers :
              /\ API_KEY_PLACEHOLDER \notin Range(requests[i].headers[h])
              /\ requests[i].headers[h] =
                    Substituted(provider.config.Headers[h], provider.apiKey)

\* The seconds a duration designator stands for.
UnitSeconds(unit) ==
    CASE unit = "D" -> 86400 [] unit = "H" -> 3600 [] unit = "M" -> 60
      [] unit = "S" -> 1 [] OTHER -> 0

RECURSIVE PartsSeconds(_)
PartsSeconds(parts) ==
    IF parts = <<>> THEN 0
    ELSE parts[1][1] * UnitSeconds(parts[1][2]) + PartsSeconds(Tail(parts))

\* The wall-clock second of the day of the raw start string, and the wall
\* clock of a time.Time shown in a zone, in whole seconds.
StartWallSeconds(me) ==
    me.StartTime[1] * 3600 + me.StartTime[2] * 60 + me.StartTime[3]
WallSecondsIn(t, zone) == (t.unix + ZoneOffset(zone)) \div TicksPerSecond

Convertible(me) == ZoneResolves(me) /\ StartParses(me) /\ DurationParses(me)

EventZone(me) == IF me.TimeZone = "" THEN "UTC" ELSE me.TimeZone

\* C20: for every raw event with a resolvable zone, a parsable start and a
\* parsable ISO-8601 duration, the canonical event's endTime is its
\* startTime plus the duration; the start is the raw wall-clock time in the
\* event's zone, the end is that wall-clock time plus the duration in the
\* event's zone, and both are held as local time.
C20_EndIsStartPlusDuration ==
    (fpc = "done" /\ fetched.status = "ok") =>
        \A i \in DOMAIN morgenEvents :
            LET me == morgenEvents[i] IN
            Convertible(me) =>
                \E j \in DOMAIN fetched.events :
                    LET ev == fetched.events[j] IN
                    /\ ev.ID = me.ID
                    /\ ev.EndTime.unix - ev.StartTime.unix =
                          PartsSeconds(me.Duration.parts) * TicksPerSecond
                    /\ WallSecondsIn(ev.StartTime, EventZone(me)) =
                          StartWallSeconds(me)
                    /\ WallSecondsIn(ev.EndTime, EventZone(me)) =
                          StartWallSeconds(me) + PartsSeconds(me.Duration.parts)
                    /\ ev.StartTime.loc = LocalZone
                    /\ ev.EndTime.loc = LocalZone

\* The 09:00 New York event of one and a half hours was converted: it ends
\* at 10:30 there, which is 16:30 local time.
C20_Witness ==
    /\ fpc = "done"
    /\ fetched.status = "ok"
    /\ \E j \in DOMAIN fetched.events :
          /\ fetched.events[j].ID = "e1"
          /\ WallSecondsIn(fetched.events[j].EndTime, "America/New_York")
                = 10 * 3600 + 30 * 60
          /\ WallSecondsIn(fetched.events[j].EndTime, fetched.events[j].EndTime.loc)
                = 16 * 3600 + 30 * 60

-----------------------------------------------------------------------------
(* Claims about the post-processing, checked under SpecPost.               *)

PostProcessed == ppc \in {"sorted", "exit"} /\ sortedEvents # <<>>

\* The index of the first event of the fetched list with the title and the
\* start time of e.
FirstOfPair(e) ==
    CHOOSE i \in DOMAIN fetched.events :
        /\ fetched.events[i].Title = e.Title
        /\ fetched.events[i].StartTime = e.StartTime
        /\ \A k \in DOMAIN fetched.events :
             (fetched.events[k].Title = e.Title
              /\ fetched.events[k].StartTime = e.StartTime) => i <= k

\* C9: post-processing keeps exactly one event for each distinct
\* (title, startTime) pair of the fetched list, and it is the first event of
\* that pair in fetch order.
C9_OneEventPerTitleAndStart ==
    PostProcessed =>
        \A i \in DOMAIN fetched.events :
            LET e == fetched.events[i]
                kept == {j \in DOMAIN sortedEvents :
                            /\ sortedEvents[j].Title = e.Title
                            /\ sortedEvents[j].StartTime = e.StartTime} IN
            /\ Cardinality(kept) = 1
            /\ \A j \in kept : sortedEvents[j] = fetched.events[FirstOfPair(e)]

\* C10: after post-processing, events with equal start times are in the
\* order in which deduplication produced them, the order of their first
\* occurrences in the fetched list.
C10_TiesKeepDedupOrder ==
    PostProcessed =>
        \A i, j \in DOMAIN sortedEvents :
            (i < j /\ sortedEvents[i].StartTime = sortedEvents[j].StartTime)
                => FirstOfPair(sortedEvents[i]) < FirstOfPair(sortedEvents[j])

\* C11: the post-processed list is in ascending start-time order: for all
\* adjacent pairs, startTime[i] <= startTime[i+1].
C11_SortedAscending ==
    PostProcessed =>
        \A i \in 1..(Len(sortedEvents) - 1) :
            sortedEvents[i].StartTime.unix <= sortedEvents[i + 1].StartTime.unix

\* Events that were fetched latest first came out earliest first.
C11_Witness ==
    /\ PostProcessed
    /\ Len(sortedEvents) >= 2
    /\ Len(fetched.events) >= 2
    /\ fetched.events[1].StartTime.unix > fetched.events[2].StartTime.unix
    /\ sortedEvents[1].StartTime.unix < sortedEvents[2].StartTime.unix

\* C12: post-processing (deduplicate, then sort) is idempotent: applied to
\* its own output it yields the same sequence of events.
C12_PostProcessingIdempotent ==
    PostProcessed => PostProcessor(sortedEvents) = {sortedEvents}

\* The run ended with the fetch having given no event, or none left.
EndedWithNoEvents ==
    /\ ppc = "exit"
    /\ fetched.status = "ok"
    /\ DOMAIN Deduplicate(fetched.events) = {}

\* C18: when a successful fetch leaves zero events, the run reports the
\* "no events" outcome and ends normally, with no event line printed; that
\* outcome is never the report of a fetch error, and a fetch error is never
\* reported as it.
C18_NoEventsIsNotAnError ==
    /\ EndedWithNoEvents => (exit = "no_events" /\ output = <<>>)
    /\ exit = "no_events" => (fetched.status = "ok" /\ output = <<>>)
    /\ (ppc = "exit" /\ fetched.status = "error") => exit = "fatal"

C18_Witness == EndedWithNoEvents /\ exit = "no_events"

\* The formatter of the run.
RunFormatter == NewEventFormatter(runConfig.TimeFormat, runConfig.EventTemplate)

Renders(event) == FormatEvent(RunFormatter, event).err = "nil"

\* C19: a render failure for one event does not abort the run: the lines
\* printed are those of every event of the post-processed list that renders,
\* in the order of that list, and only the failing events' lines are missing.
C19_RenderFailureSkipsOnlyThatEvent ==
    (ppc = "exit" /\ sortedEvents # <<>> /\ RunFormatter.err = "nil") =>
        LET rendered == SelectSeq(sortedEvents, Renders) IN
        /\ exit = "printed"
        /\ Len(output) = Len(rendered)
        /\ \A i \in DOMAIN output :
              output[i] = FormatEvent(RunFormatter, rendered[i]).line

\* The first event of the list did not render and a later one was printed.
C19_Witness ==
    /\ exit = "printed"
    /\ Len(sortedEvents) >= 2
    /\ ~Renders(sortedEvents[1])
    /\ Renders(sortedEvents[2])
    /\ Len(output) = Len(sortedEvents) - 1

-----------------------------------------------------------------------------
(* Claims about the configuration store, checked under SpecConfig.         *)

LoadedVersion(file) == Unmarshal(file.doc, ZeroConfig).Version

ReadOfMissingFile == last.op = "ReadConfig" /\ last.before.kind = "none"

ReadOfStaleFile ==
    /\ last.op = "ReadConfig"
    /\ last.before.kind = "yaml"
    /\ LoadedVersion(last.before) # CURRENT_CONFIG_VERSION

\* C1: ReadConfig(path), called when no file exists at path, returns a
\* configuration equal to DefaultConfig() and a nil error, for every path.
C1_MissingFileReturnsDefault ==
    ReadOfMissingFile => (last.config = DefaultConfig /\ last.err = "nil")

\* C2: when ReadConfig(path) finds no file at path, the file it leaves at that
\* same path is the default configuration, so that a following ReadConfig(path)
\* finds an existing file carrying the current version.
C2_MissingFilePersistsDefaultAtPath ==
    ReadOfMissingFile =>
        /\ files[last.path] = YamlFile(Marshal(DefaultConfig))
        /\ LoadedVersion(files[last.path]) = CURRENT_CONFIG_VERSION

\* C3: for a persisted configuration whose version differs from
\* CURRENT_CONFIG_VERSION, ReadConfig(path) returns the default configuration
\* and re-persists it, so that the next load of the same path reads a
\* configuration with the current version.
C3_StaleVersionReplacedAtPath ==
    ReadOfStaleFile =>
        /\ last.config = DefaultConfig
        /\ last.err = "nil"
        /\ files[last.path].kind = "yaml"
        /\ LoadedVersion(files[last.path]) = CURRENT_CONFIG_VERSION

ReadOfWrittenDefault ==
    /\ last.op = "ReadConfig"
    /\ last.path = SystemConfigPath
    /\ last.before = WriteConfig(files, DefaultConfig)[SystemConfigPath]

\* C16: reading back the file WriteConfig(DefaultConfig()) leaves yields a
\* Config equal to DefaultConfig() in every field (provider, time format,
\* template, providers map, version), with no error.
C16_DefaultRoundTrip ==
    ReadOfWrittenDefault =>
        /\ last.err = "nil"
        /\ last.config.Provider = DefaultConfig.Provider
        /\ last.config.TimeFormat = DefaultConfig.TimeFormat
        /\ last.config.EventTemplate = DefaultConfig.EventTemplate
        /\ last.config.Providers = DefaultConfig.Providers
        /\ last.config.Version = DefaultConfig.Version

\* The written default was read back and nothing was rewritten.
C16_Witness ==
    /\ ReadOfWrittenDefault
    /\ files[SystemConfigPath] = last.before

\* C17: if the file at path exists but cannot be deserialized, ReadConfig
\* returns a parse error and writes nothing: every file, the one at path and
\* the one at the default path, is as it was.
C17_ParseErrorWritesNothing ==
    [][(last'.op = "ReadConfig" /\ last'.before.kind = "corrupt")
          => (last'.err = "parse" /\ files' = files)]_vars

\* A file at the explicit path that does not parse was read, next to a
\* system file.
C17_Witness ==
    /\ last.op = "ReadConfig"
    /\ last.path = "custom"
    /\ last.before.kind = "corrupt"
    /\ last.err = "parse"
    /\ files[SystemConfigPath].kind = "yaml"

\* The last call got its configuration from DefaultConfig(): the init
\* subcommand, or a ReadConfig that found another schema version.
GotDefaultConfig == last.op = "init" \/ ReadOfStaleFile

\* C21: DefaultConfig() always returns a configuration with a non-empty
\* provider name, a non-empty time format, a non-empty event template and a
\* non-empty providers map, and its version equals CURRENT_CONFIG_VERSION.
C21_DefaultConfigIsComplete ==
    GotDefaultConfig =>
        /\ last.config.Provider # ""
        /\ last.config.TimeFormat # ""
        /\ last.config.EventTemplate # ""
        /\ DOMAIN last.config.Providers # {}
        /\ last.config.Version = CURRENT_CONFIG_VERSION

\* The init subcommand wrote what DefaultConfig() returned.
C21_Witness ==
    /\ last.op = "init"
    /\ files[SystemConfigPath] = YamlFile(Marshal(last.config))

\* The step is a ReadConfig call on the default path.
ReadsDefaultPath == last'.op = "ReadConfig" /\ last'.path = SystemConfigPath

StoredDefault == YamlFile(Marshal(DefaultConfig))

\* C22: starting with no file at the default path, the first ReadConfig
\* call on that path leaves a file there, the call that follows it leaves
\* the default configuration with the current version, and a ReadConfig
\* call on that path that finds the stored default returns the default
\* configuration with a nil error and rewrites nothing.
C22_RepeatedReadsConverge ==
    [][/\ (ReadsDefaultPath /\ files[SystemConfigPath].kind = "none")
            => files'[SystemConfigPath].kind = "yaml"
       /\ (/\ ReadsDefaultPath
           /\ last.op = "ReadConfig" /\ last.path = SystemConfigPath
           /\ last.before.kind = "none"
           /\ last'.before.kind # "none")
            => /\ files'[SystemConfigPath] = StoredDefault
               /\ LoadedVersion(files'[SystemConfigPath]) = CURRENT_CONFIG_VERSION
       /\ (ReadsDefaultPath /\ files[SystemConfigPath] = StoredDefault)
            => /\ last'.config = DefaultConfig
               /\ last'.err = "nil"
               /\ files' = files]_vars

\* The second of two consecutive calls that began with no file: it found
\* what the first call wrote and left the default.
C22_Witness ==
    /\ last.op = "ReadConfig"
    /\ last.path = SystemConfigPath
    /\ last.before = YamlFile(Marshal(ZeroConfig))
    /\ files[SystemConfigPath] = StoredDefault
    /\ last.config = DefaultConfig

-----------------------------------------------------------------------------
(* Claims about runAgenda up to the fetch, checked under SpecRun.          *)

\* The names the factory's switch has a case for.
Implemented == {"morgen"}

ConstructionTried == rpc \in {"created", "fatal_provider"}

\* C14: CreateProvider(name) fails with the unknown-provider error when name
\* is not a key of config.Providers, with the distinct unsupported-provider
\* error when name is configured but has no implementation, and otherwise
\* returns a provider made from that entry; construction issues no request.
C14_CreateProviderOutcomes ==
    ConstructionTried =>
        LET name == runConfig.Provider IN
        /\ name \notin DOMAIN runConfig.Providers =>
              /\ created.err = "not found in configuration"
              /\ rpc = "fatal_provider"
        /\ (name \in DOMAIN runConfig.Providers /\ name \notin Implemented) =>
              /\ created.err = "unsupported provider"
              /\ rpc = "fatal_provider"
        /\ (name \in DOMAIN runConfig.Providers /\ name \in Implemented) =>
              /\ created.err = "nil"
              /\ rpc = "created"
              /\ provider.config = runConfig.Providers[name]
              /\ provider.apiKey = Getenv(env)
        /\ requests = <<>>

\* The --provider flag named an entry of the configuration that the factory
\* cannot build.
C14_Witness ==
    /\ rpc = "fatal_provider"
    /\ flags.provider = "google"
    /\ "google" \in DOMAIN runConfig.Providers
    /\ created.err = "unsupported provider"

OverridesApplied ==
    rpc \in {"overridden", "fatal_date", "created", "fatal_provider"}

\* field of the run's configuration after the overrides: the flag if given,
\* else what ReadConfig returned.
Overridden(flag, loaded) == IF flag # "" THEN flag ELSE loaded

\* C15: the overrides are applied after the configuration is loaded and
\* before the provider is constructed (the provider is looked up under the
\* overridden name), no write of a configuration file happens once the
\* configuration is loaded, and no stored file holds an override value.
C15_OverridesAfterLoadNeverPersisted ==
    /\ [](OverridesApplied =>
            /\ last.op = "ReadConfig" /\ last.err = "nil"
            /\ runConfig.Provider = Overridden(flags.provider, last.config.Provider)
            /\ runConfig.TimeFormat =
                  Overridden(flags.timeFormat, last.config.TimeFormat)
            /\ runConfig.EventTemplate =
                  Overridden(flags.eventTemplate, last.config.EventTemplate)
            /\ runConfig.Providers = last.config.Providers
            /\ ConstructionTried =>
                  created = CreateProvider(last.config,
                              Overridden(flags.provider, last.config.Provider), env)
            /\ \A p \in Paths :
                  files[p].kind = "yaml" =>
                    /\ flags.timeFormat # "" =>
                          files[p].doc.time_format # flags.timeFormat
                    /\ flags.eventTemplate # "" =>
                          files[p].doc.event_template # flags.eventTemplate
                    /\ flags.provider \notin {"", DefaultConfig.Provider} =>
                          files[p].doc.provider # flags.provider)
    /\ [](rpc \in {"start", "loaded", "fatal_config"} => created = NotCreated)
    /\ [][rpc # "start" => files' = files]_vars

\* A run that rewrote a stale file while loading, then applied all three
\* overrides and built the provider.
C15_Witness ==
    /\ rpc = "created"
    /\ last.before = YamlFile(Marshal(StaleConfig(0)))
    /\ flags.provider # "" /\ flags.timeFormat # "" /\ flags.eventTemplate # ""
    /\ files[SystemConfigPath] = YamlFile(Marshal(DefaultConfig))

====
